---- MODULE Spec2Model ----
(***************************************************************************)
(* rs-tmux-fzf (src/src/main.rs): the session lister, the picker protocol, *)
(* the action executor and the reload hook, as a state machine.            *)
(*                                                                         *)
(* Text is modelled as sequences of one-character strings, so that the     *)
(* formatting done by the multiplexer (FMT) and the parsing done by        *)
(* tmux_session_list and fzf_pick are computed, not assumed.               *)
(*                                                                         *)
(* An invocation starts with its dependencies resolved and its arguments   *)
(* parsed (lines 182-208): a missing binary or argument ends it before any *)
(* of the operations below.                                                *)
(***************************************************************************)
EXTENDS Integers, Sequences, FiniteSets, TLC

VARIABLES
    mux,        \* the multiplexer's sessions: a set of [attached, last, name]
    raw,        \* the lines the session query returned, each [rec, garble]
    op,         \* argv[1]: "switch-from" | "move-window" | "ls-switch-from"
    current,    \* argv[2]: the current session name
    pc,         \* position of the invocation
    items,      \* Vec<String> returned by tmux_session_list
    itemsSrc,   \* for each item, the index of the line of raw it came from
    cand,       \* the candidate list the selector holds
    candSrc,    \* for each candidate, the name of the session it came from
    out,        \* the selector's standard output, as collected
    status,     \* the selector's exit status
    choice,     \* what fzf_pick resolved to: [tag, name]
    calls,      \* the multiplexer calls this invocation issued, in order
    stdout,     \* what this invocation printed
    exitCode,   \* the invocation's exit code, -1 while it runs
    err,        \* the external-process error that happened, "" if none
    stdin,      \* what fzf_pick wrote to the selector's input
    envs,       \* changes of the session set by others so far
    kills,      \* kill-key presses so far
    curKilled   \* the kill-key destroyed the current session

invVars == <<raw, pc, items, itemsSrc, cand, candSrc, out, status, choice,
             calls, stdout, exitCode, err>>

vars == <<mux, op, current, stdin, envs, kills, curKilled, invVars>>

----------------------------------------------------------------------------
(* Bounds of the model.                                                    *)

MaxTs == 2          \* last-attached timestamps are 0, TsStep, .. MaxTs*TsStep
TsStep == 5         \* 5 and 10: a one-digit and a two-digit timestamp
MaxLines == 3       \* lines of a raw listing (SpecList)
MaxOutLines == 2    \* lines of a selector output
MaxEnv == 1         \* changes of the session set by others
MaxKills == 2       \* kill-key presses

----------------------------------------------------------------------------
(* Characters and text.                                                    *)

NL == "\n"
CR == "\r"
SP == " "

DigitChars == <<"0", "1", "2", "3", "4", "5", "6", "7", "8", "9">>

IsDigit(c) == \E i \in 1..10 : DigitChars[i] = c

DigitVal(c) == (CHOOSE i \in 1..10 : DigitChars[i] = c) - 1

\* char::is_whitespace, on the characters of the model
IsWhitespace(c) == c \in {SP, NL, CR, "\t"}

Range(f) == {f[i] : i \in DOMAIN f}

\* Index of the first TRUE of a sequence of booleans, or its length + 1.
FirstTrue(flags) ==
    IF \E i \in 1..Len(flags) : flags[i]
    THEN CHOOSE i \in 1..Len(flags) : flags[i] /\ \A j \in 1..(i - 1) : ~flags[j]
    ELSE Len(flags) + 1

\* str::split_whitespace: the maximal runs of non-whitespace characters.
RECURSIVE split_whitespace(_)
split_whitespace(s) ==
    IF s = <<>> THEN <<>>
    ELSE IF IsWhitespace(s[1]) THEN split_whitespace(Tail(s))
    ELSE LET n == FirstTrue([i \in 1..Len(s) |-> IsWhitespace(s[i])])
         IN  <<SubSeq(s, 1, n - 1)>> \o split_whitespace(SubSeq(s, n, Len(s)))

\* str::lines: split at "\n", a final empty piece dropped, a trailing "\r"
\* of a line stripped.
RECURSIVE lines(_)
lines(s) ==
    IF s = <<>> THEN <<>>
    ELSE LET n == FirstTrue([i \in 1..Len(s) |-> s[i] = NL])
             l == SubSeq(s, 1, n - 1)
             stripped == IF l # <<>> /\ l[Len(l)] = CR
                         THEN SubSeq(l, 1, Len(l) - 1) ELSE l
         IN  <<stripped>> \o lines(SubSeq(s, n + 1, Len(s)))

RECURSIVE DecValue(_)
DecValue(tok) ==
    IF tok = <<>> THEN 0
    ELSE 10 * DecValue(SubSeq(tok, 1, Len(tok) - 1)) + DigitVal(tok[Len(tok)])

U8Max == 255

\* Options are <<>> (None) and <<v>> (Some(v)).
\* x.parse::<u8>().ok()
parse_u8(tok) ==
    IF tok # <<>> /\ (\A i \in 1..Len(tok) : IsDigit(tok[i])) /\ DecValue(tok) <= U8Max
    THEN <<DecValue(tok)>> ELSE <<>>

\* x.parse::<u64>().ok(); the tokens of the model are far shorter than the
\* twenty digits at which a u64 overflows.
parse_u64(tok) ==
    IF tok # <<>> /\ (\A i \in 1..Len(tok) : IsDigit(tok[i]))
    THEN <<DecValue(tok)>> ELSE <<>>

unwrap_or(opt, default) == IF opt = <<>> THEN default ELSE opt[1]

\* Iterator::next on the tokens: the i-th token, if any.
Nth(it, i) == IF i <= Len(it) THEN <<it[i]>> ELSE <<>>

----------------------------------------------------------------------------
(* The multiplexer's side of the session query: the format string FMT.     *)

RECURSIVE FormatTs(_)
FormatTs(n) ==
    IF n < 10 THEN <<DigitChars[n + 1]>>
    ELSE FormatTs(n \div 10) \o <<DigitChars[(n % 10) + 1]>>

\* "#{?session_attached,0,1} #{?session_last_attached,,0}#{session_last_attached} #{session_name}"
FmtFlag(rec) == IF rec.attached THEN <<"0">> ELSE <<"1">>

FmtTs(rec) == IF rec.last # 0 THEN FormatTs(rec.last) ELSE <<"0">>

FMT(rec) == FmtFlag(rec) \o <<SP>> \o FmtTs(rec) \o <<SP>> \o rec.name

\* A line of the listing: FMT of a session, or that line with a field
\* unparsable or missing.
LineText(l) ==
    CASE l.garble = "none"    -> FMT(l.rec)
      [] l.garble = "badflag" -> <<"x">> \o <<SP>> \o FmtTs(l.rec) \o <<SP>> \o l.rec.name
      [] l.garble = "badts"   -> FmtFlag(l.rec) \o <<SP>> \o <<"x">> \o <<SP>> \o l.rec.name
      [] l.garble = "noflag"  -> FmtTs(l.rec) \o <<SP>> \o l.rec.name
      [] l.garble = "nots"    -> FmtFlag(l.rec) \o <<SP>> \o l.rec.name

RECURSIVE ListingText(_)
ListingText(ls) ==
    IF ls = <<>> THEN <<>>
    ELSE LineText(ls[1]) \o <<NL>> \o ListingText(Tail(ls))

----------------------------------------------------------------------------
(* tmux_session_list                                                       *)

\* One iteration of the loop over s.lines(): the row of line i.
ParseLine(line, i) ==
    LET it == split_whitespace(line)
        f1 == Nth(it, 1)
        f2 == Nth(it, 2)
        f3 == Nth(it, 3)
    IN  [attached      |-> unwrap_or(IF f1 = <<>> THEN <<>> ELSE parse_u8(f1[1]), 1),
         last_attached |-> unwrap_or(IF f2 = <<>> THEN <<>> ELSE parse_u64(f2[1]), 0),
         name          |-> unwrap_or(f3, <<>>),
         src           |-> i]

\* if !name.is_empty() && name != current { rows.push(..) }
Keep(row, cur) == row.name # <<>> /\ row.name # cur

Rows(cur, s) ==
    LET ls == lines(s)
        all == [i \in 1..Len(ls) |-> ParseLine(ls[i], i)]
    IN  SelectSeq(all, LAMBDA r : Keep(r, cur))

Ordering(x, y) == IF x < y THEN "Less" ELSE IF x > y THEN "Greater" ELSE "Equal"

\* Ordering::then
then(o1, o2) == IF o1 = "Equal" THEN o2 ELSE o1

\* The ascending comparator: a plausible slip of the closure below.
compareAscending(a, b) ==
    then(Ordering(a.attached, b.attached), Ordering(a.last_attached, b.last_attached))

\* |a, b| b.0.cmp(&a.0).then(b.1.cmp(&a.1))
compare(a, b) ==
    then(Ordering(b.attached, a.attached), Ordering(b.last_attached, a.last_attached))

\* slice::sort_by is stable: x goes before the first element it is Less than.
InsertSorted(sorted, x) ==
    LET k == FirstTrue([i \in 1..Len(sorted) |-> compare(x, sorted[i]) = "Less"])
    IN  SubSeq(sorted, 1, k - 1) \o <<x>> \o SubSeq(sorted, k, Len(sorted))

RECURSIVE sort_by(_)
sort_by(rows) ==
    IF rows = <<>> THEN <<>>
    ELSE InsertSorted(sort_by(SubSeq(rows, 1, Len(rows) - 1)), rows[Len(rows)])

SortedRows(cur, s) == sort_by(Rows(cur, s))

\* rows.into_iter().map(|(_, _, n)| n).collect()
tmux_session_list(cur, s) ==
    LET rows == SortedRows(cur, s) IN [i \in 1..Len(rows) |-> rows[i].name]

\* The line each returned name came from.
SourceLines(cur, s) ==
    LET rows == SortedRows(cur, s) IN [i \in 1..Len(rows) |-> rows[i].src]

----------------------------------------------------------------------------
(* Inputs.                                                                 *)

\* Session names: the multiplexer accepts names that hold a space.
SessionNames == {<<"a">>, <<"b">>, <<"a", SP, "b">>}

Timestamps == {k * TsStep : k \in 0..MaxTs}

Garbles == {"badflag", "badts", "noflag", "nots"}

\* Sequences of n distinct session names.
NameSeqs(n) ==
    {ns \in [1..n -> SessionNames] : \A i, j \in 1..n : i # j => ns[i] # ns[j]}

LineAttrs == [attached : BOOLEAN, last : Timestamps, garble : {"none"} \cup Garbles]

\* Attributes of n lines, at most one of them malformed.
AttrSeqs(n) ==
    {as \in [1..n -> LineAttrs] :
        Cardinality({i \in 1..n : as[i].garble # "none"}) <= 1}

MkListing(ns, as) ==
    [i \in DOMAIN ns |->
        [rec    |-> [attached |-> as[i].attached, last |-> as[i].last, name |-> ns[i]],
         garble |-> as[i].garble]]

----------------------------------------------------------------------------
(* SpecList: tmux_session_list applied to every listing.                   *)

NoChoice == [tag |-> "Pending", name |-> <<>>]

\* The state of an invocation that has parsed its arguments.
Fresh ==
    /\ pc = "start"
    /\ items = <<>> /\ itemsSrc = <<>>
    /\ cand = <<>> /\ candSrc = <<>>
    /\ out = <<>> /\ status = 0
    /\ choice = NoChoice
    /\ calls = <<>>
    /\ stdout = <<>>
    /\ exitCode = -1
    /\ err = ""

InitList ==
    /\ Fresh
    /\ mux = {}
    /\ \E n \in 1..MaxLines : \E ns \in NameSeqs(n) : \E as \in AttrSeqs(n) :
           raw = MkListing(ns, as)
    /\ op = "ls-switch-from"
    /\ current \in SessionNames
    /\ stdin = <<>> /\ envs = 0 /\ kills = 0 /\ curKilled = FALSE

ApplyList ==
    /\ pc = "start"
    /\ items' = tmux_session_list(current, ListingText(raw))
    /\ itemsSrc' = SourceLines(current, ListingText(raw))
    /\ pc' = "listed"
    /\ UNCHANGED <<mux, raw, op, current, stdin, envs, kills, curKilled,
                   cand, candSrc, out, status, choice, calls, stdout, exitCode, err>>

NextList == ApplyList

SpecList == InitList /\ [][NextList]_vars

----------------------------------------------------------------------------
(* The multiplexer, as the invocation sees it.                             *)

\* The sessions the multiplexer may hold, in the order it lists them.
Universe ==
    << [attached |-> TRUE,  last |-> 0,          name |-> <<"a">>],
       [attached |-> FALSE, last |-> TsStep,     name |-> <<"a", SP, "b">>],
       [attached |-> FALSE, last |-> 2 * TsStep, name |-> <<"b">>],
       [attached |-> FALSE, last |-> 0,          name |-> <<"c">>] >>

\* The names the invocation is given as its current session.
CurrentNames == {<<"c">>, <<"a", SP, "b">>}

\* The records `tmux list-sessions` reports for the session set m.
Listed(m) ==
    LET ls == SelectSeq(Universe, LAMBDA r : r \in m)
    IN  [i \in 1..Len(ls) |-> [rec |-> ls[i], garble |-> "none"]]

\* An argument given as a literal.
L(w) == <<w>>

\* &["list-sessions", "-F", FMT]
ListCall == <<L("list-sessions"), L("-F"), L("FMT")>>

\* &["display-message", "-p", &msg]
DisplayCall(msg) == <<L("display-message"), L("-p"), msg>>

\* The standard-error text of a failed call.
ErrText == L("stderr")

\* How a spawned process can end, as wrap tells them apart.
Outcomes == {"ok", "spawn-failed", "nonzero"}

\* wrap(cmd, args, err_display_cb): the multiplexer calls it makes. On a
\* nonzero exit the callback (tmux_message, itself a wrap with no callback)
\* shows the standard-error text; wrap then dies whatever that call did.
wrapCalls(args, cb, outcome) ==
    <<args>> \o (IF outcome = "nonzero" /\ cb THEN <<DisplayCall(ErrText)>> ELSE <<>>)

----------------------------------------------------------------------------
(* The picker protocol: fzf_pick.                                          *)

\* for it in items { buf.extend_from_slice(it.as_bytes()); buf.push(b'\n') }
RECURSIVE WriteBuf(_)
WriteBuf(its) ==
    IF its = <<>> THEN <<>> ELSE its[1] \o <<NL>> \o WriteBuf(Tail(its))

\* The selector's output: each line followed by a newline.
RECURSIVE JoinLines(_)
JoinLines(ls) ==
    IF ls = <<>> THEN <<>> ELSE ls[1] \o <<NL>> \o JoinLines(Tail(ls))

ExitCodes == {0, 1, 130}

\* out.status.success()
success(st) == st = 0

\* The resolution with the exit status ignored: a plausible slip.
ResolveIgnoringStatus(output, st) ==
    LET ls == lines(output)
    IN  IF ls = <<>> THEN [tag |-> "Die", name |-> <<>>]
        ELSE IF Nth(ls, 2) # <<>> THEN [tag |-> "FromSelection", name |-> ls[2]]
        ELSE IF ls[1] = <<>> THEN [tag |-> "Cancel", name |-> <<>>]
        ELSE [tag |-> "New", name |-> ls[1]]

\* The resolution without the check for an empty query: a plausible slip.
ResolveNoCancel(output, st) ==
    LET ls == lines(output)
    IN  IF ls = <<>> THEN [tag |-> "Die", name |-> <<>>]
        ELSE IF success(st) /\ Nth(ls, 2) # <<>>
             THEN [tag |-> "FromSelection", name |-> ls[2]]
        ELSE [tag |-> "New", name |-> ls[1]]

\* The resolution taking the query for the selection: a plausible slip.
ResolveQueryAsSelection(output, st) ==
    LET ls == lines(output)
    IN  IF ls = <<>> THEN [tag |-> "Die", name |-> <<>>]
        ELSE IF success(st) /\ Nth(ls, 2) # <<>>
             THEN [tag |-> "FromSelection", name |-> ls[1]]
        ELSE IF ls[1] = <<>> THEN [tag |-> "Cancel", name |-> <<>>]
        ELSE [tag |-> "New", name |-> ls[1]]

\* Lines 134-147 of fzf_pick: what the collected output resolves to.
Resolve(output, st) ==
    LET ls       == lines(output)
        query    == ls[1]
        selected == Nth(ls, 2)
    IN  IF ls = <<>> THEN [tag |-> "Die", name |-> <<>>]
        ELSE IF success(st) /\ selected # <<>>
             THEN [tag |-> "FromSelection", name |-> selected[1]]
        ELSE IF query = <<>> THEN [tag |-> "Cancel", name |-> <<>>]
        ELSE [tag |-> "New", name |-> query]

----------------------------------------------------------------------------
(* The action executor: the command chains of main.                        *)

\* argv[3] of move-window: the current window id.
current_window == <<"@", "1">>

\* format!("{target}:") and format!("{target}:!")
Colon(target) == target \o <<":">>

ColonBang(target) == target \o <<":", "!">>

SwitchFromSelection(target) ==
    <<L("switch-client"), L("-t"), target, L(";"),
      L("refresh-client"), L("-S")>>

SwitchNew(target) ==
    <<L("new-session"), L("-d"), L("-s"), target, L(";"),
      L("switch-client"), L("-t"), target, L(";"),
      L("refresh-client"), L("-S")>>

MoveFromSelection(target) ==
    <<L("move-window"), L("-t"), Colon(target), L(";"),
      L("switch-client"), L("-t"), target, L(";"),
      L("select-window"), L("-t"), current_window>>

MoveNew(target) ==
    <<L("new-session"), L("-d"), L("-s"), target, L(";"),
      L("move-window"), L("-s"), current_window, L("-t"), Colon(target), L(";"),
      L("switch-client"), L("-t"), target, L(";"),
      L("kill-window"), L("-t"), ColonBang(target)>>

\* The chain with the two choices exchanged: a plausible slip.
ChainSwapped(verb, ch) ==
    CASE verb = "switch-from" /\ ch.tag = "FromSelection" -> SwitchNew(ch.name)
      [] verb = "switch-from" /\ ch.tag = "New"           -> SwitchFromSelection(ch.name)
      [] verb = "move-window" /\ ch.tag = "FromSelection" -> MoveNew(ch.name)
      [] verb = "move-window" /\ ch.tag = "New"           -> MoveFromSelection(ch.name)

\* match action { .. match choice { .. } }
Chain(verb, ch) ==
    CASE verb = "switch-from" /\ ch.tag = "FromSelection" -> SwitchFromSelection(ch.name)
      [] verb = "switch-from" /\ ch.tag = "New"           -> SwitchNew(ch.name)
      [] verb = "move-window" /\ ch.tag = "FromSelection" -> MoveFromSelection(ch.name)
      [] verb = "move-window" /\ ch.tag = "New"           -> MoveNew(ch.name)

----------------------------------------------------------------------------
(* The reload hook: ls-switch-from.                                        *)

\* for item in list { println!("{}", item) }
RECURSIVE PrintLines(_)
PrintLines(list) ==
    IF list = <<>> THEN <<>> ELSE list[1] \o <<NL>> \o PrintLines(Tail(list))

\* reload({exe} ls-switch-from {current_session}): the selector runs the
\* command through a shell, which splits it at whitespace; the hook takes
\* the first word after the verb (args.next()).
HookArg(cur) == Nth(split_whitespace(cur), 1)

\* execute(tmux kill-session -t {1}): {1} is the first field of the
\* highlighted line.
Field1(line) == unwrap_or(Nth(split_whitespace(line), 1), <<>>)

IsPrefix(p, t) == Len(p) <= Len(t) /\ SubSeq(t, 1, Len(p)) = p

\* The sessions `kill-session -t target` may destroy: the session of that
\* name; without one, the only session the target is a prefix of, or none
\* (the multiplexer's own target resolution decides).
KillTargets(m, target) ==
    LET exact  == {r \in m : r.name = target}
        prefix == {r \in m : IsPrefix(target, r.name)}
    IN  IF exact # {} THEN {exact}
        ELSE IF Cardinality(prefix) = 1 THEN {{}, prefix}
        ELSE {{}}

----------------------------------------------------------------------------
(* The invocation: main.                                                   *)

Verbs == {"switch-from", "move-window", "ls-switch-from"}

Init ==
    /\ Fresh
    /\ raw = <<>>
    /\ op \in Verbs
    /\ current \in CurrentNames
    /\ mux \in {m \in SUBSET Range(Universe) : \E r \in m : r.name = current}
    /\ stdin = <<>> /\ envs = 0 /\ kills = 0 /\ curKilled = FALSE

Exit(code, why) ==
    /\ pc' = "done"
    /\ exitCode' = code
    /\ err' = why

\* tmux_session_list: the session query succeeds; the listing is parsed,
\* filtered and sorted.
QueryOk ==
    /\ pc = "start"
    /\ calls' = calls \o wrapCalls(ListCall, TRUE, "ok")
    /\ raw' = Listed(mux)
    /\ items' = tmux_session_list(current, ListingText(Listed(mux)))
    /\ itemsSrc' = SourceLines(current, ListingText(Listed(mux)))
    /\ pc' = IF op = "ls-switch-from" THEN "print" ELSE "spawn"
    /\ UNCHANGED <<mux, op, current, stdin, envs, kills, curKilled,
                   cand, candSrc, out, status, choice, stdout, exitCode, err>>

\* tmux_session_list: the session query cannot be started or exits nonzero.
QueryFails ==
    /\ pc = "start"
    /\ \E o \in Outcomes \ {"ok"} :
        /\ calls' = calls \o wrapCalls(ListCall, TRUE, o)
        /\ Exit(1, "query")
    /\ UNCHANGED <<mux, op, current, stdin, envs, kills, curKilled,
                   raw, items, itemsSrc, cand, candSrc, out, status, choice, stdout>>

\* main, "ls-switch-from": print the list.
PrintList ==
    /\ pc = "print"
    /\ stdout' = PrintLines(items)
    /\ pc' = "done"
    /\ exitCode' = 0
    /\ UNCHANGED <<mux, op, current, stdin, envs, kills, curKilled,
                   raw, items, itemsSrc, cand, candSrc, out, status, choice, calls, err>>

\* fzf_pick: the selector is spawned and fed the list in one write.
SpawnFzf ==
    /\ pc = "spawn"
    /\ cand' = lines(WriteBuf(items))
    /\ candSrc' = [i \in 1..Len(items) |-> raw[itemsSrc[i]].rec.name]
    /\ stdin' = WriteBuf(items)
    /\ pc' = "open"
    /\ UNCHANGED <<mux, op, current, envs, kills, curKilled,
                   raw, items, itemsSrc, out, status, choice, calls, stdout, exitCode, err>>

\* fzf_pick: spawn() fails; `.ok()?` returns None and main falls through.
SpawnFzfFails ==
    /\ pc = "spawn"
    /\ Exit(0, "selector")
    /\ UNCHANGED <<mux, op, current, stdin, envs, kills, curKilled,
                   raw, items, itemsSrc, cand, candSrc, out, status, choice, calls, stdout>>

\* The kill-key, first half: the highlighted entry's session is destroyed.
KillKey ==
    /\ pc = "open"
    /\ kills < MaxKills
    /\ \E i \in 1..Len(cand) : \E victims \in KillTargets(mux, Field1(cand[i])) :
        /\ mux' = mux \ victims
        /\ curKilled' = (curKilled \/ \E r \in victims : r.name = current)
    /\ kills' = kills + 1
    /\ pc' = "killed"
    /\ UNCHANGED <<op, current, stdin, envs,
                   raw, items, itemsSrc, cand, candSrc, out, status, choice,
                   calls, stdout, exitCode, err>>

\* The kill-key, second half: the selector reloads its list from a fresh
\* ls-switch-from invocation; a hook that fails prints nothing.
Reload ==
    /\ pc = "killed"
    /\ \E o \in {"ok", "failed"} :
        LET arg  == HookArg(current)
            text == ListingText(Listed(mux))
        IN  IF o = "ok" /\ arg # <<>>
            THEN /\ cand' = lines(PrintLines(tmux_session_list(arg[1], text)))
                 /\ candSrc' = [i \in 1..Len(SourceLines(arg[1], text)) |->
                                   Listed(mux)[SourceLines(arg[1], text)[i]].rec.name]
            ELSE /\ cand' = <<>>
                 /\ candSrc' = <<>>
    /\ pc' = "open"
    /\ UNCHANGED <<mux, op, current, stdin, envs, kills, curKilled,
                   raw, items, itemsSrc, out, status, choice, calls, stdout, exitCode, err>>

\* Someone else creates or destroys a session.
MuxChange ==
    /\ pc \in {"open", "killed"}
    /\ envs < MaxEnv
    /\ \E r \in Range(Universe) :
        mux' = IF r \in mux THEN mux \ {r} ELSE mux \cup {r}
    /\ envs' = envs + 1
    /\ UNCHANGED <<op, current, stdin, kills, curKilled, invVars>>

\* The lines a selector may print: a query, an entry, anything.
OutLines == {<<>>, <<"q">>} \cup Range(cand)

OutLineSeqs == UNION {[1..n -> OutLines] : n \in 0..MaxOutLines}

\* fzf_pick: the selector exits, its output is collected and resolved.
FzfExit ==
    /\ pc = "open"
    /\ \E ls \in OutLineSeqs : \E st \in ExitCodes :
        LET r == Resolve(JoinLines(ls), st)
        IN  /\ out' = JoinLines(ls)
            /\ status' = st
            /\ choice' = r
            /\ IF r.tag = "Die" THEN Exit(1, "protocol")
               ELSE /\ pc' = IF r.tag = "Cancel" THEN "notify" ELSE "act"
                    /\ UNCHANGED <<exitCode, err>>
    /\ cand' = <<>>
    /\ candSrc' = <<>>
    /\ UNCHANGED <<mux, op, current, stdin, envs, kills, curKilled,
                   raw, items, itemsSrc, calls, stdout>>

\* fzf_pick: wait_with_output() fails; `.ok()?` returns None.
FzfWaitFails ==
    /\ pc = "open"
    /\ Exit(0, "selector")
    /\ cand' = <<>>
    /\ candSrc' = <<>>
    /\ UNCHANGED <<mux, op, current, stdin, envs, kills, curKilled,
                   raw, items, itemsSrc, out, status, choice, calls, stdout>>

\* fzf_pick: tmux_message("canceled"), then return None; main falls through.
Notify ==
    /\ pc = "notify"
    /\ \E o \in Outcomes :
        /\ calls' = calls \o wrapCalls(DisplayCall(L("canceled")), FALSE, o)
        /\ IF o = "ok" THEN Exit(0, "") ELSE Exit(1, "message")
    /\ UNCHANGED <<mux, op, current, stdin, envs, kills, curKilled,
                   raw, items, itemsSrc, cand, candSrc, out, status, choice, stdout>>

\* main: the command chain of the verb and the choice, in one wrap!.
Act ==
    /\ pc = "act"
    /\ \E o \in Outcomes :
        /\ calls' = calls \o wrapCalls(Chain(op, choice), TRUE, o)
        /\ IF o = "ok" THEN Exit(0, "") ELSE Exit(1, "batch")
    /\ UNCHANGED <<mux, op, current, stdin, envs, kills, curKilled,
                   raw, items, itemsSrc, cand, candSrc, out, status, choice, stdout>>

Next ==
    \/ QueryOk \/ QueryFails \/ PrintList
    \/ SpawnFzf \/ SpawnFzfFails
    \/ KillKey \/ Reload \/ MuxChange
    \/ FzfExit \/ FzfWaitFails
    \/ Notify \/ Act

Spec == Init /\ [][Next]_vars

----------------------------------------------------------------------------
(* Claims about tmux_session_list (checked under SpecList).                *)

\* The listing line (session record and malformation) behind item i.
SrcLine(i) == raw[itemsSrc[i]]

WellFormed(l) == l.garble = "none"

\* C1: in the returned list every unattached session precedes every
\* attached session, and within one attachment class a session with a
\* higher last-attached timestamp precedes one with a lower timestamp
\* (timestamp 0, never attached, last in its class).
C1_RankingOrder ==
    pc = "listed" =>
        \A i, j \in 1..Len(items) :
            (i < j /\ WellFormed(SrcLine(i)) /\ WellFormed(SrcLine(j))) =>
                /\ ~(SrcLine(i).rec.attached /\ ~SrcLine(j).rec.attached)
                /\ (SrcLine(i).rec.attached = SrcLine(j).rec.attached
                        => SrcLine(i).rec.last >= SrcLine(j).rec.last)

\* The scenario of the claim: an attached, never attached session listed
\* first, then two unattached sessions with timestamps 2*TsStep and TsStep
\* given in the other order; the result is the two unattached sessions by
\* descending timestamp, then the attached one.
C1_Witness ==
    /\ pc = "listed"
    /\ Len(raw) = 3 /\ \A i \in 1..3 : WellFormed(raw[i])
    /\ raw[1].rec.attached /\ raw[1].rec.last = 0
    /\ ~raw[2].rec.attached /\ raw[2].rec.last = TsStep
    /\ ~raw[3].rec.attached /\ raw[3].rec.last = 2 * TsStep
    /\ itemsSrc = <<3, 2, 1>>

\* C2: the returned names are exactly the names of the other sessions: never
\* the current session's name, never an empty name, and the name of every
\* session other than the current one.
C2_ExactlyOtherSessions ==
    (pc = "listed" /\ \A i \in 1..Len(raw) : WellFormed(raw[i])) =>
        /\ current \notin Range(items)
        /\ <<>> \notin Range(items)
        /\ Range(items) = {raw[i].rec.name : i \in 1..Len(raw)} \ {current}

\* C7: a line whose attached-flag field is missing or unparsable sorts after
\* every unattached session, and a line whose timestamp field is missing or
\* unparsable sorts last within its attachment class.
C7_MalformedSortsLast ==
    pc = "listed" =>
        \A i, j \in 1..Len(items) :
            /\ (/\ SrcLine(i).garble \in {"badflag", "noflag"}
                /\ WellFormed(SrcLine(j)) /\ ~SrcLine(j).rec.attached) => j < i
            /\ (/\ SrcLine(i).garble \in {"badts", "nots"}
                /\ WellFormed(SrcLine(j))
                /\ SrcLine(j).rec.attached = SrcLine(i).rec.attached
                /\ SrcLine(j).rec.last > 0) => j < i

----------------------------------------------------------------------------
(* Claims about the invocation (checked under Spec).                       *)

\* A call that is neither the session query nor a message display.
IsAction(call) == call[1] \notin {L("list-sessions"), L("display-message")}

ActionBatches == SelectSeq(calls, IsAction)

\* The selector has terminated and its output has been collected.
Collected == choice.tag # "Pending"

OutQuery == lines(out)[1]

HasSecondLine == Len(lines(out)) >= 2

\* C3: for every exit status and every output with at least one line, the
\* result is FromSelection(second line) if the selector exited successfully
\* and a second line is present; otherwise cancellation (the "canceled"
\* notification, then None) if the query line is empty, and New(query line)
\* if it is not. An output with no first line aborts the invocation.
C3_Resolution ==
    Collected =>
        IF lines(out) = <<>>
        THEN choice.tag = "Die" /\ pc = "done" /\ exitCode = 1 /\ calls = <<ListCall>>
        ELSE IF status = 0 /\ HasSecondLine
        THEN choice = [tag |-> "FromSelection", name |-> lines(out)[2]]
             /\ pc \in {"act", "done"}
        ELSE IF OutQuery = <<>>
        THEN /\ choice = [tag |-> "Cancel", name |-> <<>>]
             /\ pc \in {"notify", "done"}
             /\ pc = "done" => calls = <<ListCall, DisplayCall(L("canceled"))>>
        ELSE choice = [tag |-> "New", name |-> OutQuery]
             /\ pc \in {"act", "done"}

\* A selection made with a query typed: FromSelection of the second line.
C3_Witness ==
    /\ Collected /\ status = 0
    /\ lines(out) = <<L("q"), L("b")>>
    /\ choice = [tag |-> "FromSelection", name |-> L("b")]

\* C4 (as claimed): fzf_pick ends in cancellation if and only if the query
\* line is empty and no second line is present.
C4_CancelIffNoSecondLine ==
    (Collected /\ lines(out) # <<>>) =>
        (choice.tag = "Cancel" <=> (OutQuery = <<>> /\ ~HasSecondLine))

\* C4 (amended): fzf_pick ends in cancellation if and only if the query line
\* is empty and either no second line is present or the selector did not
\* exit successfully.
C4_CancelIff ==
    (Collected /\ lines(out) # <<>>) =>
        (choice.tag = "Cancel" <=> (OutQuery = <<>> /\ (~HasSecondLine \/ status # 0)))

\* An empty query with a second line and an unsuccessful exit: cancellation.
C4_Witness ==
    /\ Collected /\ status # 0
    /\ lines(out) = <<<<>>, L("b")>>
    /\ choice.tag = "Cancel"

\* C5: for every verb and every resolved choice the invocation issues, after
\* the selector has terminated, exactly one command batch, and it is the
\* chain of the table for that verb and choice.
C5_OneBatch ==
    /\ ~Collected => ActionBatches = <<>>
    /\ (pc = "done" /\ choice.tag \in {"FromSelection", "New"}) =>
        /\ Len(ActionBatches) = 1
        /\ (op = "switch-from" /\ choice.tag = "FromSelection")
               => ActionBatches[1] = SwitchFromSelection(choice.name)
        /\ (op = "switch-from" /\ choice.tag = "New")
               => ActionBatches[1] = SwitchNew(choice.name)
        /\ (op = "move-window" /\ choice.tag = "FromSelection")
               => ActionBatches[1] = MoveFromSelection(choice.name)
        /\ (op = "move-window" /\ choice.tag = "New")
               => ActionBatches[1] = MoveNew(choice.name)

\* move-window with a new session: create, move, switch, kill the placeholder.
C5_Witness ==
    /\ pc = "done" /\ op = "move-window"
    /\ choice = [tag |-> "New", name |-> L("q")]
    /\ calls = <<ListCall, MoveNew(L("q"))>>
    /\ exitCode = 0

\* C6: whenever a spawned subprocess (the session query, the command batch,
\* the selector) cannot be started or collected, or a multiplexer call exits
\* nonzero, the invocation terminates with exit code 1, retries nothing and
\* issues no further action command.
C6_ErrorsAreFatal ==
    (pc = "done" /\ err \in {"query", "selector", "batch", "message"}) =>
        /\ exitCode = 1
        /\ Len(ActionBatches) <= 1
        /\ err \in {"query", "selector"} => ActionBatches = <<>>
        /\ Len(SelectSeq(calls, LAMBDA c : c = ListCall)) = 1

\* C8, first part: the hook prints exactly what the picker protocol writes to
\* the selector for the listing and the name the hook was given.
C8_RoundTripPart ==
    (op = "ls-switch-from" /\ pc = "done" /\ exitCode = 0) =>
        stdout = WriteBuf(tmux_session_list(current, ListingText(raw)))

\* C8, second part: the hook spawns no selector.
C8_NoSelectorPart ==
    op = "ls-switch-from" => (pc \in {"start", "print", "done"} /\ stdin = <<>>)

\* C8: for an unchanged session set and the same current-session name the
\* reload hook prints exactly the names the picker protocol writes to the
\* selector, in the same order, one per line; it spawns no selector and issues
\* no multiplexer command other than the session query.
C8_HookRoundTripOnlyQuery ==
    /\ C8_RoundTripPart
    /\ C8_NoSelectorPart
    /\ op = "ls-switch-from" => \A i \in 1..Len(calls) : calls[i] = ListCall

\* The picker resolved to cancellation: empty query, no selection.
Cancelled ==
    /\ Collected /\ lines(out) # <<>>
    /\ OutQuery = <<>> /\ ~(status = 0 /\ HasSecondLine)

\* C9 (as claimed): whenever the picker resolves to cancellation the
\* invocation executes no action command batch and terminates with exit
\* code 0, whatever the outcome of the "canceled" notification.
C9_CancelExitsZero ==
    Cancelled =>
        /\ ActionBatches = <<>>
        /\ pc = "done" => exitCode = 0

\* C9 (amended): whenever the picker resolves to cancellation the invocation
\* executes no action command batch; it terminates with exit code 0 when the
\* "canceled" notification call succeeds and with exit code 1 when that call
\* cannot be started or exits nonzero.
C9_CancelNoAction ==
    Cancelled =>
        /\ ActionBatches = <<>>
        /\ pc \in {"notify", "done"}
        /\ pc = "done" =>
            /\ calls = <<ListCall, DisplayCall(L("canceled"))>>
            /\ exitCode = (IF err = "" THEN 0 ELSE 1)
            /\ err \in {"", "message"}

\* A cancellation in move-window whose notification succeeded: exit code 0.
C9_Witness ==
    /\ Cancelled /\ op = "move-window" /\ pc = "done"
    /\ exitCode = 0 /\ err = ""
    /\ calls = <<ListCall, DisplayCall(L("canceled"))>>

\* C10: while the picker is open, under every interleaving of kill-key
\* actions and changes of the session set, every candidate list the selector
\* holds excludes the current session; the kill-key never destroys the
\* current session and a FromSelection choice never names it.
C10_CurrentNeverCandidate ==
    /\ \A i \in 1..Len(candSrc) : candSrc[i] # current
    /\ ~curKilled
    /\ choice.tag = "FromSelection" => choice.name # current

====
